---- MODULE Spec2Model ----
(***************************************************************************)
(* Model of pandas/io/data.py: the Options session (page fetch, table      *)
(* cache, snapshot, post-processing, near-price filter) and the helpers    *)
(* it is built on.  Python objects are tagged values [kind, v]; strings    *)
(* are sequences of one-character strings; Python positions are 0-based    *)
(* and converted where a TLA+ sequence is indexed.                         *)
(***************************************************************************)
EXTENDS Integers, Sequences, FiniteSets, TLC

VARIABLES
    CUR_MONTH,          \* module global, data.py:520
    CUR_YEAR,           \* module global, data.py:521
    CUR_DAY,            \* module global, data.py:522
    symbol,             \* self.symbol
    tables,             \* the _tablesMMYY attributes: name -> table collection
    frames,             \* the calls / puts / callsMMYY / putsMMYY attributes
    months,             \* self.months, the expiry months of the summary page
    underlying_price,   \* self.underlying_price (NoAttr until first set)
    quote_time,         \* self.quote_time (NoAttr until first set)
    last,               \* observation of the last public call (ghost)
    fetched,            \* names of the pages whose tables were stored (ghost)
    arg,                \* inputs of a pure-function run
    res,                \* result of a pure-function run
    pc                  \* position of a pure-function run

vars == <<CUR_MONTH, CUR_YEAR, CUR_DAY, symbol, tables, frames,
          underlying_price, quote_time, months, last, fetched, arg, res,
          pc>>

-----------------------------------------------------------------------------
(* Python values *)

Max(a, b) == IF a >= b THEN a ELSE b
Min(a, b) == IF a <= b THEN a ELSE b

None == [kind |-> "None", v |-> 0]
NaN == [kind |-> "nan", v |-> 0]
NoAttr == [kind |-> "noattr", v |-> 0]
Num(x) == [kind |-> "num", v |-> x]
Str(s) == [kind |-> "str", v |-> s]
Bool(b) == [kind |-> "bool", v |-> b]
Date(y, m, d) == [kind |-> "date", v |-> [year |-> y, month |-> m, day |-> d]]
DateTime(y, m, d, hm) ==
    [kind |-> "datetime", v |-> [year |-> y, month |-> m, day |-> d, hm |-> hm]]

\* Python truth value of `not x` for the values a price argument takes
Falsy(x) == x.kind = "None" \/ (x.kind = "num" /\ x.v = 0)

NoExc == "none"

-----------------------------------------------------------------------------
(* Strings, slices and attribute names *)

Digits == <<"0", "1", "2", "3", "4", "5", "6", "7", "8", "9">>

RECURSIVE str(_)
str(n) == IF n < 10 THEN <<Digits[n + 1]>>
          ELSE str(n \div 10) \o <<Digits[(n % 10) + 1]>>

\* Python's normalisation of a slice bound against a length
PyIndex(i, n) == IF i < 0 THEN Max(i + n, 0) ELSE Min(i, n)

\* s[start:stop] for a sequence or a frame's rows
PySlice(s, start, stop) ==
    SubSeq(s, PyIndex(start, Len(s)) + 1, PyIndex(stop, Len(s)))

\* s[start:]
PySliceFrom(s, start) == PySlice(s, start, Len(s))

two_char_month(s) == IF Len(s) >= 2 THEN s ELSE <<"0">> \o s

\* '_tables' + m1 + str(year)[-2:]
TableName(month, year) ==
    <<"_tables">> \o two_char_month(str(month)) \o PySliceFrom(str(year), -2)

\* name + m1 + str(year)[-2:]
FrameName(name, month, year) ==
    <<name>> \o two_char_month(str(month)) \o PySliceFrom(str(year), -2)

\* mutant of SetAttr: setting an attribute drops the others
SetAttrAlone(obj, name, value) == [n \in {name} |-> value]

\* setattr(obj, name, value)
SetAttr(obj, name, value) ==
    [n \in (DOMAIN obj) \cup {name} |-> IF n = name THEN value ELSE obj[n]]

HasAttr(obj, name) == name \in DOMAIN obj

NoAttrs == [n \in {} |-> None]

-----------------------------------------------------------------------------
(* Options._try_parse_dates *)

\* mutant of try_parse_dates: a month or a year given alone is ignored
try_parse_dates_lax(year, month, expiry, cur_year, cur_month) ==
    IF expiry.kind # "None"
    THEN [exc |-> NoExc, warn |-> FALSE,
          year |-> expiry.v.year, month |-> expiry.v.month, expiry |-> expiry]
    ELSE IF year.kind = "None" \/ month.kind = "None"
    THEN [exc |-> NoExc, warn |-> FALSE,
          year |-> cur_year, month |-> cur_month,
          expiry |-> Date(cur_year, cur_month, 1)]
    ELSE [exc |-> NoExc, warn |-> TRUE,
          year |-> year.v, month |-> month.v,
          expiry |-> Date(year.v, month.v, 1)]

\* `A or B and C` parses as `A or (B and C)`: the month-only test is not
\* guarded by `expiry is None`
try_parse_dates(year, month, expiry, cur_year, cur_month) ==
    IF \/ (month.kind # "None" /\ year.kind = "None")
       \/ /\ (month.kind = "None" /\ year.kind # "None")
          /\ expiry.kind = "None"
    THEN [exc |-> "ValueError", warn |-> FALSE, year |-> 0, month |-> 0,
          expiry |-> None]
    ELSE IF expiry.kind # "None"
    THEN [exc |-> NoExc, warn |-> FALSE,
          year |-> expiry.v.year, month |-> expiry.v.month, expiry |-> expiry]
    ELSE IF year.kind = "None" /\ month.kind = "None"
    THEN [exc |-> NoExc, warn |-> FALSE,
          year |-> cur_year, month |-> cur_month,
          expiry |-> Date(cur_year, cur_month, 1)]
    ELSE [exc |-> NoExc, warn |-> TRUE,
          year |-> year.v, month |-> month.v,
          expiry |-> Date(year.v, month.v, 1)]

-----------------------------------------------------------------------------
(* Frames: [columns, index, rows]; a row maps each column or index level   *)
(* name to a value.                                                        *)

Range(s) == {s[i] : i \in 1..Len(s)}

RECURSIVE concat(_)
concat(fs) ==
    IF Len(fs) = 1 THEN fs[1]
    ELSE [columns |-> fs[1].columns \cup concat(Tail(fs)).columns,
          index |-> fs[1].index,
          rows |-> fs[1].rows \o concat(Tail(fs)).rows]

Upper(c) == CASE c = "a" -> "A" [] c = "b" -> "B" [] c = "k" -> "K"
              [] OTHER -> c

upper(s) == [i \in 1..Len(s) |-> Upper(s[i])]

\* mutant of RemoveHyphens: the hyphens are kept
RemoveHyphensKept(s) == s

\* s.replace('-', '')
RemoveHyphens(s) == SelectSeq(s, LAMBDA c : c # "-")

IsDigit(c) == \E d \in 1..10 : Digits[d] = c

DigitVal(c) == (CHOOSE d \in 1..10 : Digits[d] = c) - 1

\* to_datetime on a 'YYMMDD' string; a string that is no date is kept
to_datetime(s) ==
    IF Len(s) = 6 /\ \A i \in 1..6 : IsDigit(s[i])
    THEN Date(2000 + 10 * DigitVal(s[1]) + DigitVal(s[2]),
              10 * DigitVal(s[3]) + DigitVal(s[4]),
              10 * DigitVal(s[5]) + DigitVal(s[6]))
    ELSE Str(s)

\* frame.Symbol.str[0:-9]
Rootexp(sym) == PySlice(sym, 0, -9)

\* frame.Rootexp.str[0:-6]
Root(sym) == PySlice(Rootexp(sym), 0, -6)

\* frame['Root'] != self.symbol.replace('-','')
IsNonstandard(sym, self_symbol) == Root(sym) # RemoveHyphens(self_symbol)

IndexLevels == <<"Strike", "Expiry", "Type", "Symbol">>

ProcessedColumns(columns) ==
    ((columns \ {"Open Int"})
        \cup (IF "Open Int" \in columns THEN {"Open_Int"} ELSE {})
        \cup {"Root", "Expiry", "IsNonstandard", "Underlying",
              "Underlying_Price", "Quote_Time", "Type"})

\* mutant of ProcessRow: the rows are not stamped with the session's snapshot
ProcessRowUnstamped(r, columns, type, self) ==
    [c \in ProcessedColumns(columns) |->
        CASE c = "Root" -> Str(Root(r.Symbol.v))
          [] c = "Expiry" -> to_datetime(PySliceFrom(Rootexp(r.Symbol.v), -6))
          [] c = "IsNonstandard" ->
                Bool(IsNonstandard(r.Symbol.v, self.symbol))
          [] c = "Underlying" -> Str(self.symbol)
          [] c = "Underlying_Price" -> NaN
          [] c = "Quote_Time" -> NaN
          [] c = "Type" -> Str(type)
          [] c = "Open_Int" -> IF "Open Int" \in columns THEN r["Open Int"]
                               ELSE r[c]
          [] OTHER -> r[c]]

ProcessRow(r, columns, type, self) ==
    [c \in ProcessedColumns(columns) |->
        CASE c = "Root" -> Str(Root(r.Symbol.v))
          [] c = "Expiry" -> to_datetime(PySliceFrom(Rootexp(r.Symbol.v), -6))
          [] c = "IsNonstandard" ->
                Bool(IsNonstandard(r.Symbol.v, self.symbol))
          [] c = "Underlying" -> Str(self.symbol)
          [] c = "Underlying_Price" -> self.underlying_price
          [] c = "Quote_Time" -> self.quote_time
          [] c = "Type" -> Str(type)
          [] c = "Open_Int" -> IF "Open Int" \in columns THEN r["Open Int"]
                               ELSE r[c]
          [] OTHER -> r[c]]

\* Options._process_data: self is [symbol, underlying_price, quote_time]
process_data(frame, type, self) ==
    IF "Symbol" \notin frame.columns
    THEN [exc |-> "AttributeError", frame |-> frame]
    ELSE IF self.underlying_price.kind = "noattr"
    THEN [exc |-> "AttributeError", frame |-> frame]
    ELSE IF ~(Range(IndexLevels) \subseteq ProcessedColumns(frame.columns))
    THEN [exc |-> "KeyError", frame |-> frame]
    ELSE [exc |-> NoExc,
          frame |->
            [columns |-> ProcessedColumns(frame.columns) \ Range(IndexLevels),
             index |-> IndexLevels,
             rows |-> [i \in 1..Len(frame.rows) |->
                        ProcessRow(frame.rows[i], frame.columns, type, self)]]]

-----------------------------------------------------------------------------
(* Options.chop_data *)

\* np.where(strikes > price)[0]: the 0-based positions, ascending
RECURSIVE StrikesAbove(_, _, _)
StrikesAbove(rows, price, pos) ==
    IF pos >= Len(rows) THEN <<>>
    ELSE (IF rows[pos + 1].Strike.v > price THEN <<pos>> ELSE <<>>)
            \o StrikesAbove(rows, price, pos + 1)

\* mutant of get_range: the window starts and ends one row early
get_range_early(start_index, above_below) ==
    [start |-> start_index - above_below - 1,
     stop |-> start_index + above_below]

\* slice(start_index - above_below, start_index + above_below + 1)
get_range(start_index, above_below) ==
    [start |-> start_index - above_below,
     stop |-> start_index + above_below + 1]

\* dropna(how='all'): drop the rows all of whose columns are NaN
dropna(rows, columns) ==
    SelectSeq(rows, LAMBDA r : ~(\A c \in columns : r[c].kind = "nan"))

\* the price chop_data works with: the argument, or the session's
ChopPrice(price, self_price) ==
    IF Falsy(price)
    THEN (IF self_price.kind = "noattr" THEN NaN ELSE self_price)
    ELSE price

chop_data(df, above_below, price, self_price) ==
    LET p == ChopPrice(price, self_price)
        above == StrikesAbove(df.rows, p.v, 0)
    IN  IF p.kind = "nan" THEN [exc |-> NoExc, df |-> df]
        ELSE IF above = <<>> THEN [exc |-> "IndexError", df |-> df]
        ELSE LET rng == get_range(above[1], above_below)
             IN  [exc |-> NoExc,
                  df |-> [df EXCEPT !.rows =
                            dropna(PySlice(df.rows, rng.start, rng.stop),
                                   df.columns)]]

-----------------------------------------------------------------------------
(* Pages: what the network returns for one request.  A page is             *)
(* [net, tables, ticker, time]: net is "ok", "neterr" (the transport       *)
(* raised a network error) or "noroot"; tables is the 0-indexed list       *)
(* root.xpath('.//table'); ticker and time are the quote elements.         *)

PyLen(list) == Cardinality(DOMAIN list)

Msg(text, required, found, inner) ==
    [text |-> text, required |-> required, found |-> found, inner |-> inner]

NoMsg == Msg("", 0, 0, "")

\* Options._TABLE_LOC
TABLE_LOC(name) == IF name = "calls" THEN 9 ELSE 13

\* '{sym}+Options' for the current month, else '{sym}&m={year}-{m1}'
OptionsUrl(sym, expiry) ==
    IF expiry.v.month = CUR_MONTH /\ expiry.v.year = CUR_YEAR
    THEN sym \o <<"+Options">>
    ELSE sym \o <<"&m=">> \o str(expiry.v.year) \o <<"-">>
             \o two_char_month(str(expiry.v.month))

\* Options._parse_url
parse_url(url, page) ==
    IF page.net = "neterr"
    THEN [exc |-> "RemoteDataError",
          msg |-> Msg("Unable to parse URL", 0, 0, "")]
    ELSE IF page.net = "noroot"
    THEN [exc |-> "RemoteDataError",
          msg |-> Msg("Parsed URL has no root element", 0, 0, "")]
    ELSE [exc |-> NoExc, msg |-> NoMsg]

\* float(text) of an element's text: None, digits, or other text
float(text) ==
    IF text.kind = "None" THEN [exc |-> "TypeError", v |-> NaN]
    ELSE IF text.v # <<>> /\ \A i \in 1..Len(text.v) : IsDigit(text.v[i])
    THEN [exc |-> NoExc,
          v |-> Num(IF Len(text.v) = 1 THEN DigitVal(text.v[1])
                    ELSE 10 * DigitVal(text.v[1]) + DigitVal(text.v[2]))]
    ELSE [exc |-> "ValueError", v |-> NaN]

\* the quote-time text is [form, mon, day, hour, minute, pm, tz]:
\*   form "date"  'May 17, 4:00PM EDT'   form "clock" '4:00PM EDT'
\* what "%H:%M%p" reads: %H takes the hour digits as a 24-hour hour and %p
\* does not shift it
HourMinute(hour, minute, pm) == 60 * hour + minute

\* strptime(timestring, "%b %d, %H:%M%p EDT").replace(year=CUR_YEAR)
strptime_date(t) ==
    IF t.form = "date" /\ t.tz = "EDT"
    THEN [exc |-> NoExc,
          v |-> DateTime(CUR_YEAR, t.mon, t.day,
                         HourMinute(t.hour, t.minute, t.pm))]
    ELSE [exc |-> "ValueError", v |-> NaN]

\* strptime(text, "%H:%M%p EDT").replace(year, month, day of today)
strptime_clock(text) ==
    IF text.kind = "None" THEN [exc |-> "TypeError", v |-> NaN]
    ELSE IF text.v.form = "clock" /\ text.v.tz = "EDT"
    THEN [exc |-> NoExc,
          v |-> DateTime(CUR_YEAR, CUR_MONTH, CUR_DAY,
                         HourMinute(text.v.hour, text.v.minute, text.v.pm))]
    ELSE [exc |-> "ValueError", v |-> NaN]

\* the quote time of _get_underlying_price (lines 706-717)
QuoteTime(time) ==
    IF time.el # "child" THEN [exc |-> "IndexError", v |-> NaN]
    ELSE IF time.text.kind # "None"
    THEN (IF time.text.v.form = "clock"
          THEN [exc |-> "IndexError", v |-> NaN]      \* split(",")[1]
          ELSE strptime_date(time.text.v))
    ELSE IF time.nested.el # "child"
    THEN [exc |-> "IndexError", v |-> NaN]
    ELSE strptime_clock(time.nested.text)

\* Options._get_underlying_price
get_underlying_price(root) ==
    IF root.ticker.el # "child"
    THEN [exc |-> "IndexError", price |-> NaN, time |-> NaN]
    ELSE IF float(root.ticker.text).exc # NoExc
    THEN [exc |-> float(root.ticker.text).exc, price |-> NaN, time |-> NaN]
    ELSE IF QuoteTime(root.time).exc # NoExc
    THEN [exc |-> QuoteTime(root.time).exc, price |-> NaN, time |-> NaN]
    ELSE [exc |-> NoExc, price |-> float(root.ticker.text).v,
          time |-> QuoteTime(root.time).v]

\* which exceptions of _get_underlying_price degrade the snapshot to NaN
SnapshotDegrades(exc) == exc = "IndexError"

\* Options._parse_option_page_from_yahoo; S is the session
parse_option_page_from_yahoo(S, root) ==
    LET snap == get_underlying_price(root)
    IN  IF PyLen(root.tables) = 0
        THEN [exc |-> "RemoteDataError", msg |-> Msg("No tables found", 0, 0, ""),
              S |-> S]
        ELSE IF snap.exc = NoExc
        THEN [exc |-> NoExc, msg |-> NoMsg,
              S |-> [S EXCEPT !.underlying_price = snap.price,
                              !.quote_time = snap.time]]
        ELSE IF SnapshotDegrades(snap.exc)
        THEN [exc |-> NoExc, msg |-> NoMsg,
              S |-> [S EXCEPT !.underlying_price = NaN, !.quote_time = NaN]]
        ELSE [exc |-> snap.exc, msg |-> NoMsg, S |-> S]

\* Options._get_option_tables
get_option_tables(S, expiry, page) ==
    LET got == parse_url(OptionsUrl(S.symbol, expiry), page)
        parsed == parse_option_page_from_yahoo(S, page)
        table_name == TableName(expiry.v.month, expiry.v.year)
    IN  IF got.exc # NoExc
        THEN [exc |-> got.exc, msg |-> got.msg, S |-> S, stored |-> FALSE]
        ELSE IF parsed.exc # NoExc
        THEN [exc |-> parsed.exc, msg |-> parsed.msg, S |-> S,
              stored |-> FALSE]
        ELSE [exc |-> NoExc, msg |-> NoMsg,
              S |-> [parsed.S EXCEPT
                        !.tables = SetAttr(@, table_name, page.tables)],
              stored |-> TRUE]

\* _parse_options_data: a table is [header, data]; one without rows has no
\* rows[0]
parse_options_data(table) ==
    IF ~table.tr THEN [exc |-> "IndexError", frame |-> table]
    ELSE [exc |-> NoExc,
          frame |-> [columns |-> Range(table.header), index |-> <<>>,
                     rows |-> table.data]]

-----------------------------------------------------------------------------
(* sortlevel: rows ordered by the index levels Strike, Expiry, Type, Symbol *)

CharOrder == <<"-", "0", "1", "2", "3", "4", "5", "6", "7", "8", "9",
               "B", "C", "K", "P">>

CharRank(c) == CHOOSE i \in 1..Len(CharOrder) : CharOrder[i] = c

SortKey(r) ==
    <<r.Strike.v>>
        \o (IF r.Expiry.kind = "date"
            THEN <<r.Expiry.v.year, r.Expiry.v.month, r.Expiry.v.day>>
            ELSE <<0, 0, 0>>)
        \o <<IF r.Type.v = "call" THEN 0 ELSE 1>>
        \o [i \in 1..Len(r.Symbol.v) |-> CharRank(r.Symbol.v[i])]

RECURSIVE LexLess(_, _)
LexLess(a, b) ==
    IF b = <<>> THEN FALSE
    ELSE IF a = <<>> THEN TRUE
    ELSE IF Head(a) # Head(b) THEN Head(a) < Head(b)
    ELSE LexLess(Tail(a), Tail(b))

RECURSIVE InsertRow(_, _)
InsertRow(sorted, r) ==
    IF sorted = <<>> THEN <<r>>
    ELSE IF LexLess(SortKey(r), SortKey(Head(sorted)))
    THEN <<r>> \o sorted
    ELSE <<Head(sorted)>> \o InsertRow(Tail(sorted), r)

RECURSIVE SortRows(_)
SortRows(rows) ==
    IF rows = <<>> THEN <<>>
    ELSE InsertRow(SortRows(SubSeq(rows, 1, Len(rows) - 1)), rows[Len(rows)])

sortlevel(frame) == [frame EXCEPT !.rows = SortRows(@)]

-----------------------------------------------------------------------------
(* Options._get_option_data.  The session S is                             *)
(* [symbol, tables, frames, underlying_price, quote_time]; the result      *)
(* carries the session after the call and what the call did.               *)

\* name[:-1]
Singular(name) == IF name = "calls" THEN "call" ELSE "put"

\* option_data['Type'] = name[:-1]
WithType(frame, type) ==
    [frame EXCEPT !.columns = @ \cup {"Type"},
                  !.rows = [i \in 1..Len(frame.rows) |->
                              [c \in frame.columns \cup {"Type"} |->
                                 IF c = "Type" THEN Str(type)
                                 ELSE frame.rows[i][c]]]]

\* mutant of CachedTables: the stored tables are never found
CachedTablesNever(S, table_name) == FALSE

\* getattr(self, table_name) succeeds
CachedTables(S, table_name) == HasAttr(S.tables, table_name)

\* mutant of IsCurrentExpiry: every expiry counts as the current one
IsCurrentExpiryAlways(month, year) == TRUE

\* month == CUR_MONTH and year == CUR_YEAR
IsCurrentExpiry(month, year) == month = CUR_MONTH /\ year = CUR_YEAR

\* the guard before the table is read
TableLocInvalid(table_loc, ntables) == table_loc - 1 > ntables

\* the body of the try block up to option_data (lines 739-741)
OptionFrame(S, tabs, name) ==
    IF TABLE_LOC(name) \notin DOMAIN tabs
    THEN [exc |-> "IndexError", frame |-> None]
    ELSE IF parse_options_data(tabs[TABLE_LOC(name)]).exc # NoExc
    THEN [exc |-> parse_options_data(tabs[TABLE_LOC(name)]).exc,
          frame |-> None]
    ELSE process_data(
            WithType(parse_options_data(tabs[TABLE_LOC(name)]).frame,
                     Singular(name)),
            Singular(name), S)

\* setattr(self, name, ...) when current, and setattr(self, name + MMYY, ...)
StoreFrame(S, name, month, year, option_data) ==
    [S EXCEPT !.frames =
        SetAttr(IF IsCurrentExpiry(month, year)
                THEN SetAttr(@, <<name>>, option_data)
                ELSE @,
                FrameName(name, month, year), option_data)]

\* the request made and the quote elements of the page it returned
Request(S, expiry, page) ==
    [url |-> OptionsUrl(S.symbol, expiry),
     month |-> expiry.v.month, year |-> expiry.v.year,
     ticker |-> page.ticker, time |-> page.time]

Outcome(exc, msg, S, ret, d, name, requests, stored, examined, found) ==
    [exc |-> exc, msg |-> msg, S |-> S, ret |-> ret, name |-> name,
     year |-> d.year, month |-> d.month, expiry |-> d.expiry,
     requests |-> requests, stored |-> stored,
     examined |-> examined, found |-> found]

get_option_data(S, month, year, expiry, name, page) ==
    LET d == try_parse_dates(year, month, expiry, CUR_YEAR, CUR_MONTH)
        table_name == TableName(d.month, d.year)
        hit == CachedTables(S, table_name)
        got == get_option_tables(S, d.expiry, page)
        S1 == IF hit THEN S ELSE got.S
        tabs == IF hit THEN S.tables[table_name] ELSE page.tables
        requests == IF hit THEN <<>> ELSE <<Request(S, d.expiry, page)>>
        stored == IF hit THEN {} ELSE {<<d.month, d.year>>}
        ntables == PyLen(tabs)
        table_loc == TABLE_LOC(name)
        od == OptionFrame(S1, tabs, name)
    IN  IF d.exc # NoExc
        THEN Outcome(d.exc, NoMsg, S, None, d, name, <<>>, {}, FALSE, 0)
        ELSE IF ~hit /\ got.exc # NoExc
        THEN Outcome(got.exc, got.msg, S, None, d, name, requests, {},
                     page.net = "ok", IF page.net = "ok" THEN ntables ELSE 0)
        ELSE IF TableLocInvalid(table_loc, ntables)
        THEN Outcome("RemoteDataError",
                     Msg("Table location invalid", table_loc, ntables, ""),
                     S1, None, d, name, requests, stored, TRUE, ntables)
        ELSE IF od.exc # NoExc
        THEN Outcome("RemoteDataError",
                     Msg("Cannot retrieve Table data", 0, 0, od.exc),
                     S1, None, d, name, requests, stored, TRUE, ntables)
        ELSE Outcome(NoExc, NoMsg,
                     StoreFrame(S1, name, d.month, d.year, od.frame),
                     od.frame, d, name, requests, stored, TRUE, ntables)

\* whether a call of _get_option_data with these arguments requests a page
NeedsPage(S, month, year, expiry) ==
    LET d == try_parse_dates(year, month, expiry, CUR_YEAR, CUR_MONTH)
    IN  d.exc = NoExc /\ ~CachedTables(S, TableName(d.month, d.year))

-----------------------------------------------------------------------------
(* Bounds and input sets *)

MaxSymLen == 3
MaxRootLen == 3
MaxStrikes == 4
MaxAboveBelow == 2
MaxNear == 1

SeqsUpTo(S, n) == UNION {[1..k -> S] : k \in 0..n}

SymbolChars == {"b", "K", "-"}
RootChars == {"B", "K", "-"}

\* the date, side and strike code that ends an option symbol: 6 + 9 characters
SymbolSuffix ==
    <<"1", "4", "0", "5", "1", "7", "C", "0", "0", "1", "0", "0", "0", "0", "0">>

SymbolSuffixes == {SymbolSuffix, SubSeq(SymbolSuffix, 1, 9)}

CurDates == {[month |-> 5, year |-> 2014, day |-> 17]}

RawColumns == {"Strike", "Symbol", "Last", "Open Int"}

RawRow(strike, sym, lastv) ==
    [c \in RawColumns |->
        CASE c = "Strike" -> Num(strike)
          [] c = "Symbol" -> Str(sym)
          [] c = "Last" -> lastv
          [] OTHER -> Num(1)]

RECURSIVE SortedSeq(_)
SortedSeq(S) ==
    IF S = {} THEN <<>>
    ELSE LET m == CHOOSE x \in S : \A y \in S : x <= y
         IN  <<m>> \o SortedSeq(S \ {m})

ChopRow(strike, empty) ==
    [Strike |-> Num(strike), Last |-> IF empty THEN NaN ELSE Num(1)]

ChopFrame(strikes, empties) ==
    [columns |-> {"Last"}, index |-> <<"Strike">>,
     rows |-> [i \in 1..Len(strikes) |->
                ChopRow(strikes[i], strikes[i] \in empties)]]

StrikeSet == {10 * i : i \in 1..MaxStrikes}

LongStrikes == <<10, 20, 30, 40, 50, 60, 70>>

ChopFrames ==
    {ChopFrame(SortedSeq(S), E) : S \in SUBSET StrikeSet, E \in SUBSET StrikeSet}
        \cup {ChopFrame(LongStrikes, {})}

ChopPrices == {None, NaN} \cup {Num(p) : p \in {0, 5, 10, 25, 42, 10 * MaxStrikes}}

SessionPrices == {NoAttr, NaN, Num(25)}

Idle == [kind |-> "idle"]

Given(month, year, expiry) ==
    [month |-> month.kind # "None", year |-> year.kind # "None",
     expiry |-> expiry.kind # "None"]

NoCall ==
    [op |-> "none", name |-> "", given |-> Given(None, None, None),
     exc |-> NoExc, msg |-> NoMsg, year |-> 0, month |-> 0, expiry |-> None,
     requests |-> <<>>, examined |-> FALSE, found |-> 0, ret |-> None,
     sides |-> <<>>]

-----------------------------------------------------------------------------
(* A run of _process_data on one frame *)

SelfOf == [symbol |-> symbol, underlying_price |-> underlying_price,
           quote_time |-> quote_time]

InitProcess ==
    /\ \E d \in CurDates :
        /\ CUR_MONTH = d.month /\ CUR_YEAR = d.year /\ CUR_DAY = d.day
        /\ quote_time = DateTime(d.year, d.month, d.day, 240)
    /\ symbol \in {upper(s) : s \in SeqsUpTo(SymbolChars, MaxSymLen) \ {<<>>}}
    /\ tables = NoAttrs /\ frames = NoAttrs
    /\ underlying_price = Num(25)
    /\ months = NoAttr
    /\ last = NoCall /\ fetched = {}
    /\ \E root \in SeqsUpTo(RootChars, MaxRootLen), suffix \in SymbolSuffixes :
          arg = [root |-> root,
                 suffix |-> suffix,
                 type |-> "call",
                 frame |-> [columns |-> RawColumns, index |-> <<>>,
                            rows |-> <<RawRow(10, root \o suffix, Num(1))>>]]
    /\ res = Idle
    /\ pc = "init"

ProcessData ==
    /\ pc = "init"
    /\ res' = process_data(arg.frame, arg.type, SelfOf)
    /\ pc' = "done"
    /\ UNCHANGED <<CUR_MONTH, CUR_YEAR, CUR_DAY, symbol, tables, frames,
                   underlying_price, quote_time, months, last, fetched, arg>>

NextProcess == ProcessData

SpecProcess == InitProcess /\ [][NextProcess]_vars

-----------------------------------------------------------------------------
(* A run of chop_data on one frame *)

InitChop ==
    /\ \E d \in CurDates :
        /\ CUR_MONTH = d.month /\ CUR_YEAR = d.year /\ CUR_DAY = d.day
    /\ symbol = <<"B", "K">>
    /\ tables = NoAttrs /\ frames = NoAttrs
    /\ underlying_price \in SessionPrices
    /\ quote_time = (IF underlying_price.kind = "num"
                     THEN DateTime(CUR_YEAR, CUR_MONTH, CUR_DAY, 240)
                     ELSE underlying_price)
    /\ months = NoAttr
    /\ last = NoCall /\ fetched = {}
    /\ arg \in [df : ChopFrames, above_below : 0..MaxAboveBelow,
                underlying_price : ChopPrices]
    /\ res = Idle
    /\ pc = "init"

ChopData ==
    /\ pc = "init"
    /\ res' = chop_data(arg.df, arg.above_below, arg.underlying_price,
                        underlying_price)
    /\ pc' = "done"
    /\ UNCHANGED <<CUR_MONTH, CUR_YEAR, CUR_DAY, symbol, tables, frames,
                   underlying_price, quote_time, months, last, fetched, arg>>

NextChop == ChopData

SpecChop == InitChop /\ [][NextChop]_vars

-----------------------------------------------------------------------------
(* The month sequence of get_forward_data (lines 1020-1042) *)

MaxMonths == 14

\* in_months after the loop of lines 1025-1028, which visits the first
\* n of its n + 1 items (n is the argument months)
in_months(cur_month, n) ==
    [i \in 1..(n + 1) |->
        IF i <= n /\ cur_month + i - 1 > 12
        THEN cur_month + i - 1 - 12
        ELSE cur_month + i - 1]

\* how many of the visited items were past 12
to_change(cur_month, n) ==
    Cardinality({i \in 1..n : cur_month + i - 1 > 12})

\* in_years after the loop of lines 1031-1032: in_years[-i] += 1
in_years(cur_year, cur_month, n) ==
    [i \in 1..(n + 1) |->
        IF i > n + 1 - to_change(cur_month, n)
        THEN cur_year + 1
        ELSE cur_year]

\* (m2, y2) for mon in range(months)
ForwardPairs(cur_year, cur_month, n) ==
    [mon \in 1..n |->
        <<in_months(cur_month, n)[mon],
          in_years(cur_year, cur_month, n)[mon]>>]

InitMonths ==
    /\ CUR_MONTH \in 1..12 /\ CUR_YEAR = 2014 /\ CUR_DAY = 1
    /\ symbol = <<"B", "K">>
    /\ tables = NoAttrs /\ frames = NoAttrs
    /\ underlying_price = NoAttr /\ quote_time = NoAttr
    /\ months = NoAttr
    /\ last = NoCall /\ fetched = {}
    /\ arg \in [months : 1..MaxMonths]
    /\ res = Idle
    /\ pc = "init"

ForwardMonths ==
    /\ pc = "init"
    /\ res' = [pairs |-> ForwardPairs(CUR_YEAR, CUR_MONTH, arg.months)]
    /\ pc' = "done"
    /\ UNCHANGED <<CUR_MONTH, CUR_YEAR, CUR_DAY, symbol, tables, frames,
                   underlying_price, quote_time, months, last, fetched, arg>>

NextMonths == ForwardMonths

SpecMonths == InitMonths /\ [][NextMonths]_vars

-----------------------------------------------------------------------------
(* _retry_read_url (lines 158-178).  arg is [retry_count, pause, name, url]; *)
(* res is [i, sleeps, slept, log, lines, rs, msg]: the turns of the loop     *)
(* begun, the pauses made and their total, the outcome of each attempt, the  *)
(* body read, the value returned and the error raised.                       *)

MaxRetry == 3

\* the index column of the bodies a read may return, newest first
CsvBodies == {<<>>, <<3>>, <<3, 2, 1>>, <<3, 3, 2>>, <<3, 2, 2>>, <<3, 3>>}

Reverse(s) == [i \in 1..Len(s) |-> s[Len(s) + 1 - i]]

\* read_csv(...)[::-1], less the last row when the last two share an index
ParseCsv(lines) ==
    LET rs == Reverse(lines)
    IN  IF Len(rs) > 2 /\ rs[Len(rs)] = rs[Len(rs) - 1]
        THEN SubSeq(rs, 1, Len(rs) - 1)
        ELSE rs

\* mutant of RetryExhausted: one more turn of the loop
RetryExhaustedLate(i, retry_count) == i > retry_count

\* range(retry_count) has no further item
RetryExhausted(i, retry_count) == i >= retry_count

NoIOError == [tries |-> -1, name |-> "", url |-> ""]

InitRetry ==
    /\ \E d \in CurDates :
        CUR_MONTH = d.month /\ CUR_YEAR = d.year /\ CUR_DAY = d.day
    /\ symbol = <<"B", "K">>
    /\ tables = NoAttrs /\ frames = NoAttrs
    /\ underlying_price = NoAttr /\ quote_time = NoAttr
    /\ months = NoAttr
    /\ last = NoCall /\ fetched = {}
    /\ arg \in [retry_count : 0..MaxRetry, pause : {0, 2},
                name : {"yahoo"}, url : {"table.csv?s=BK"}]
    /\ res = [i |-> 0, sleeps |-> 0, slept |-> 0, log |-> <<>>,
              lines |-> <<>>, rs |-> <<>>, msg |-> NoIOError]
    /\ pc = "for"

RetryUnchanged ==
    UNCHANGED <<CUR_MONTH, CUR_YEAR, CUR_DAY, symbol, tables, frames,
                underlying_price, quote_time, months, last, fetched, arg>>

\* for _ in range(retry_count): time.sleep(pause)
RetrySleep ==
    /\ pc = "for" /\ ~RetryExhausted(res.i, arg.retry_count)
    /\ res' = [res EXCEPT !.i = @ + 1, !.sleeps = @ + 1,
                          !.slept = @ + arg.pause]
    /\ pc' = "read"
    /\ RetryUnchanged

\* urlopen(url) / resp.read() raises a network error: pass
RetryReadFails ==
    /\ pc = "read"
    /\ res' = [res EXCEPT !.log = Append(@, "neterr")]
    /\ pc' = "for"
    /\ RetryUnchanged

\* urlopen(url) / resp.read() returns a body
RetryReadLines ==
    /\ pc = "read"
    /\ \E lines \in CsvBodies :
          res' = [res EXCEPT !.log = Append(@, "ok"), !.lines = lines]
    /\ pc' = "else"
    /\ RetryUnchanged

\* the else branch: parse and return
RetryReturn ==
    /\ pc = "else"
    /\ res' = [res EXCEPT !.rs = ParseCsv(res.lines)]
    /\ pc' = "returned"
    /\ RetryUnchanged

\* raise IOError("after %d tries, %s did not return a 200 for url %r")
RetryRaise ==
    /\ pc = "for" /\ RetryExhausted(res.i, arg.retry_count)
    /\ res' = [res EXCEPT !.msg = [tries |-> arg.retry_count,
                                   name |-> arg.name, url |-> arg.url]]
    /\ pc' = "raised"
    /\ RetryUnchanged

NextRetry ==
    \/ RetrySleep
    \/ RetryReadFails
    \/ RetryReadLines
    \/ RetryReturn
    \/ RetryRaise

SpecRetry == InitRetry /\ [][NextRetry]_vars

-----------------------------------------------------------------------------
(* DataReader (lines 35-86).  A fetch is the record of the function called  *)
(* and what it was called with.                                             *)

\* to_datetime of None or of a date
sanitize_date(d) ==
    IF d.kind = "None" THEN None
    ELSE DateTime(d.v.year, d.v.month, d.v.day, 0)

\* _sanitize_dates; now is dt.datetime.today(), the clock at the call
sanitize_dates(start, end, now) ==
    [start |-> IF sanitize_date(start).kind = "None"
               THEN DateTime(2010, 1, 1, 0)
               ELSE sanitize_date(start),
     end |-> IF sanitize_date(end).kind = "None" THEN now
             ELSE sanitize_date(end)]

Fetch(fn, name, start, end, retry_count, pause) ==
    [kind |-> "fetch", fn |-> fn, name |-> name, start |-> start,
     end |-> end, retry_count |-> retry_count, pause |-> pause]

\* the if / elif chain of lines 75-86; no branch matches: None
DataReader(name, data_source, start, end, retry_count, pause, now) ==
    LET d == sanitize_dates(start, end, now)
    IN  IF data_source = "yahoo"
        THEN Fetch("get_data_yahoo", name, d.start, d.end, retry_count, pause)
        ELSE IF data_source = "google"
        THEN Fetch("get_data_google", name, d.start, d.end, retry_count,
                   pause)
        ELSE IF data_source = "fred"
        THEN Fetch("get_data_fred", name, d.start, d.end, 0, 0)
        ELSE IF data_source = "famafrench"
        THEN Fetch("get_data_famafrench", name, None, None, 0, 0)
        ELSE None

DataSources == {"yahoo", "google", "fred", "ff", "famafrench", "none"}

DataNames == {"GS", "VIXCLS", "F-F_Research_Data_Factors"}

\* the clock when DataReader is called: later on the day the module was
\* imported, and the midnight after it
CallTimes == {DateTime(2014, 5, 17, 960), DateTime(2014, 5, 18, 0)}

InitReader ==
    /\ \E d \in CurDates :
        CUR_MONTH = d.month /\ CUR_YEAR = d.year /\ CUR_DAY = d.day
    /\ symbol = <<"B", "K">>
    /\ tables = NoAttrs /\ frames = NoAttrs
    /\ underlying_price = NoAttr /\ quote_time = NoAttr
    /\ months = NoAttr
    /\ last = NoCall /\ fetched = {}
    /\ arg \in [name : DataNames, data_source : DataSources,
                start : {None, Date(2012, 3, 1)},
                end : {None, Date(2013, 3, 1)},
                retry_count : 0..MaxRetry, pause : {1}, now : CallTimes]
    /\ res = Idle
    /\ pc = "init"

ReadData ==
    /\ pc = "init"
    /\ res' = DataReader(arg.name, arg.data_source, arg.start, arg.end,
                         arg.retry_count, arg.pause, arg.now)
    /\ pc' = "done"
    /\ UNCHANGED <<CUR_MONTH, CUR_YEAR, CUR_DAY, symbol, tables, frames,
                   underlying_price, quote_time, months, last, fetched, arg>>

NextReader == ReadData

SpecReader == InitReader /\ [][NextReader]_vars

-----------------------------------------------------------------------------
(* The Options session: inputs *)

MonthArgs == {None, Num(5)}
YearArgs == {None, Num(2014), Num(2114)}
ExpiryArgs == {None, Date(2014, 6, 17)}

\* every way of giving or omitting month, year and expiry
AllArgs == MonthArgs \X YearArgs \X ExpiryArgs

\* the current month by default, a later year, and an expiry
CacheArgs ==
    {<<None, None, None>>, <<Num(5), Num(2114), None>>,
     <<None, None, Date(2014, 6, 17)>>}

\* the current month by default, and an expiry
PlainArgs == {<<None, None, None>>, <<None, None, Date(2014, 6, 17)>>}

OptionSymbol(root, side, strike) ==
    root \o <<"1", "4", "0", "5", "1", "7", side, "0", "0", "0">>
         \o str(strike) \o <<"0", "0", "0">>

HtmlTable(side, strikes, roots) ==
    [tr |-> TRUE,
     header |-> <<"Strike", "Symbol", "Last", "Open Int">>,
     data |-> [i \in 1..Len(strikes) |->
                RawRow(strikes[i], OptionSymbol(roots[i], side, strikes[i]),
                       IF i = 1 THEN NaN ELSE Num(1))]]

CallsTable ==
    HtmlTable("C", <<10, 20>>, <<<<"B", "K">>, <<"B", "K", "1">>>>)

PutsTable == HtmlTable("P", <<10, 5>>, <<<<"B", "K">>, <<"B", "K">>>>)

\* a table without rows
LayoutTable == [tr |-> FALSE, header |-> <<>>, data |-> <<>>]

\* an option table whose header has no Symbol column
NoSymbolTable ==
    [tr |-> TRUE, header |-> <<"Strike", "Last">>,
     data |-> <<[c \in {"Strike", "Last"} |-> Num(10)]>>]

TableList(n, calls, puts) ==
    [i \in 0..(n - 1) |->
        IF i = TABLE_LOC("calls") THEN calls
        ELSE IF i = TABLE_LOC("puts") THEN puts
        ELSE LayoutTable]

NoElement == [el |-> "absent", text |-> None]
Ticker(text) == [el |-> "child", text |-> text]
TimeText(form, tz) ==
    Str([form |-> form, mon |-> 5, day |-> 17, hour |-> 4, minute |-> 0,
         pm |-> TRUE, tz |-> tz])
TimeElement(el, text, nested) == [el |-> el, text |-> text, nested |-> nested]

GoodTime == TimeElement("child", TimeText("date", "EDT"), NoElement)

ClosedTime ==
    TimeElement("child", None, [el |-> "child", text |-> TimeText("clock", "EDT")])

Page(net, tabs, ticker, time) ==
    [net |-> net, tables |-> tabs, ticker |-> ticker, time |-> time]

NoPage == Page("none", TableList(0, LayoutTable, LayoutTable), NoElement,
               TimeElement("absent", None, NoElement))

FullTables == TableList(TABLE_LOC("puts") + 1, CallsTable, PutsTable)

TableCounts ==
    {0, 1} \cup UNION {{TABLE_LOC(n) - 1, TABLE_LOC(n), TABLE_LOC(n) + 1} :
                         n \in {"calls", "puts"}}

GoodTicker == Ticker(Str(<<"1", "5">>))

FailedPages ==
    {Page("neterr", <<>>, NoElement, GoodTime),
     Page("noroot", <<>>, NoElement, GoodTime)}

\* pages that differ in the number of tables and in the option tables
CountPages ==
    {Page("ok", TableList(n, CallsTable, PutsTable), GoodTicker, GoodTime) :
        n \in TableCounts}
    \cup {Page("ok", TableList(TABLE_LOC("puts") + 1, NoSymbolTable, PutsTable),
               GoodTicker, GoodTime)}

\* full pages that differ in the quote elements
QuotePages ==
    {Page("ok", FullTables, tk, GoodTime) :
        tk \in {NoElement, Ticker(None), Ticker(Str(<<"N", "/", "A">>))}}
    \cup {Page("ok", FullTables, GoodTicker, tm) :
            tm \in {ClosedTime,
                    TimeElement("absent", None, NoElement),
                    TimeElement("child", None, NoElement),
                    TimeElement("child", TimeText("date", "EST"), NoElement),
                    TimeElement("child", None,
                                [el |-> "child", text |-> None])}}

\* pages on which two of these meet: an absent time element under a ticker
\* text that is not a number, and fewer tables than a side needs under quote
\* elements that cannot be read
MixedPages ==
    {Page("ok", FullTables, Ticker(Str(<<"N", "/", "A">>)),
          TimeElement("absent", None, NoElement)),
     Page("ok", FullTables, Ticker(None), TimeElement("child", None, NoElement)),
     Page("ok", TableList(TABLE_LOC("calls"), CallsTable, PutsTable),
          Ticker(Str(<<"N", "/", "A">>)), GoodTime),
     Page("ok", TableList(1, CallsTable, PutsTable), GoodTicker,
          TimeElement("child", TimeText("date", "EST"), NoElement))}

Pages == FailedPages \cup CountPages \cup QuotePages \cup MixedPages

\* a failed request, no table, a page short of the calls table, a full page
\* and a full page without the ticker element
CachePages ==
    {Page("neterr", <<>>, NoElement, GoodTime),
     Page("ok", TableList(0, CallsTable, PutsTable), GoodTicker, GoodTime),
     Page("ok", TableList(TABLE_LOC("calls") - 1, CallsTable, PutsTable),
          GoodTicker, GoodTime),
     Page("ok", FullTables, GoodTicker, GoodTime),
     Page("ok", FullTables, NoElement, GoodTime)}

\* a failed request and a full page
PlainPages ==
    {Page("neterr", <<>>, NoElement, GoodTime),
     Page("ok", FullTables, GoodTicker, GoodTime)}

\* the responses a call may meet: one page if it requests any
PagesFor(S, a, Pgs) ==
    IF NeedsPage(S, a[1], a[2], a[3]) THEN Pgs ELSE {NoPage}

-----------------------------------------------------------------------------
(* The Options session: state and public methods *)

Session ==
    [symbol |-> symbol, tables |-> tables, frames |-> frames,
     underlying_price |-> underlying_price, quote_time |-> quote_time]

\* the session after a call, and what the caller saw of it; sides and mths
\* are the sides a bulk request asked for and self.months after the call
CommitAll(op, a, out, exc, ret, requests, stored, sides, mths) ==
    /\ tables' = out.S.tables
    /\ frames' = out.S.frames
    /\ underlying_price' = out.S.underlying_price
    /\ quote_time' = out.S.quote_time
    /\ months' = mths
    /\ fetched' = fetched \cup stored
    /\ last' = [op |-> op, name |-> out.name,
                given |-> Given(a[1], a[2], a[3]),
                exc |-> exc, msg |-> IF exc = out.exc THEN out.msg ELSE NoMsg,
                year |-> out.year, month |-> out.month,
                expiry |-> out.expiry,
                requests |-> requests,
                examined |-> out.examined, found |-> out.found,
                ret |-> ret, sides |-> sides]
    /\ UNCHANGED <<CUR_MONTH, CUR_YEAR, CUR_DAY, symbol, arg, res, pc>>

\* the chain accessors leave self.months alone
Commit(op, a, out, exc, ret, requests, stored) ==
    CommitAll(op, a, out, exc, ret, requests, stored, <<>>, months)

\* get_call_data / get_put_data: _get_option_data(...).sortlevel()
GetSideData(op, name, a, Pgs) ==
    \E page \in PagesFor(Session, a, Pgs) :
    \E out \in {get_option_data(Session, a[1], a[2], a[3], name, page)} :
        Commit(op, a, out, out.exc,
               IF out.exc = NoExc THEN sortlevel(out.ret) ELSE None,
               out.requests, out.stored)

GetCallData(Args, Pgs) ==
    \E a \in Args : GetSideData("get_call_data", "calls", a, Pgs)

GetPutData(Args, Pgs) ==
    \E a \in Args : GetSideData("get_put_data", "puts", a, Pgs)

\* get_options_data: concat([get_put_data(...), get_call_data(...)]).sortlevel()
GetOptionsData(Args, Pgs) ==
    \E a \in Args :
    \E page1 \in PagesFor(Session, a, Pgs) :
    \E puts \in {get_option_data(Session, a[1], a[2], a[3], "puts", page1)} :
        IF puts.exc # NoExc
        THEN Commit("get_options_data", a, puts, puts.exc, None,
                    puts.requests, puts.stored)
        ELSE \E page2 \in PagesFor(puts.S, a, Pgs) :
             \E calls \in {get_option_data(puts.S, a[1], a[2], a[3],
                                          "calls", page2)} :
                Commit("get_options_data", a, calls, calls.exc,
                       IF calls.exc = NoExc
                       THEN sortlevel(concat(<<sortlevel(puts.ret),
                                               sortlevel(calls.ret)>>))
                       ELSE None,
                       puts.requests \o calls.requests,
                       puts.stored \cup calls.stored)

\* what one turn of the loop yields: the request's outcome and the chopped
\* frame
NearResult(out, chopped) ==
    IF out.exc # NoExc THEN [out |-> out, exc |-> out.exc, df |-> None]
    ELSE [out |-> out, exc |-> chopped.exc, df |-> chopped.df]

\* data[nam] = self.chop_data(df, above_below, self.underlying_price)
NearChop(out, above_below) ==
    NearResult(out, chop_data(out.ret, above_below, out.S.underlying_price,
                              out.S.underlying_price))

\* one turn of the loop of get_near_stock_price (lines 901-902)
NearStep(S, nam, above_below, a, page) ==
    NearChop(get_option_data(S, a[1], a[2], a[3], nam, page), above_below)

\* to_ret[to_ret].index: the sides asked for, calls first
ToRet(call, put) ==
    (IF call THEN <<"calls">> ELSE <<>>) \o (IF put THEN <<"puts">> ELSE <<>>)

NearSides == {<<TRUE, FALSE>>, <<FALSE, TRUE>>, <<TRUE, TRUE>>}

GetNearStockPrice(Args, Pgs) ==
    \E above_below \in 0..MaxNear, sides \in NearSides :
    \E a \in Args :
    \E page1 \in PagesFor(Session, a, Pgs) :
    \E to_ret \in {ToRet(sides[1], sides[2])} :
    \E one \in {NearStep(Session, to_ret[1], above_below, a, page1)} :
        IF one.exc # NoExc
        THEN Commit("get_near_stock_price", a, one.out, one.exc, None,
                    one.out.requests, one.out.stored)
        ELSE IF Len(to_ret) = 1
        THEN Commit("get_near_stock_price", a, one.out, NoExc,
                    sortlevel(one.df), one.out.requests, one.out.stored)
        ELSE \E page2 \in PagesFor(one.out.S, a, Pgs) :
             \E two \in {NearStep(one.out.S, to_ret[2], above_below, a,
                                  page2)} :
                Commit("get_near_stock_price", a, two.out, two.exc,
                       IF two.exc = NoExc
                       THEN sortlevel(concat(<<one.df, two.df>>))
                       ELSE None,
                       one.out.requests \o two.out.requests,
                       one.out.stored \cup two.out.stored)

-----------------------------------------------------------------------------
(* The bulk requests: _get_expiry_months, get_all_data, get_forward_data.   *)
(* A summary page is [net, tab, links, strong]: tab is whether the element  *)
(* with id yfncsumtab is there, links are its anchors, strong the element   *)
(* that names the current month.                                            *)

\* name + str(m1) + str(y2)[2:]
BulkName(name, m2, y2) ==
    <<name>> \o two_char_month(str(m2)) \o PySliceFrom(str(y2), 2)

SummaryPage(net, tab, links, strong) ==
    [net |-> net, tab |-> tab, links |-> links, strong |-> strong]

NoSummary == SummaryPage("none", FALSE, <<>>, NoElement)

\* an anchor whose href holds '/q/op?s=' and '&m=' ends in 'year-month'
MonthLink(year, month) == [option |-> TRUE, year |-> year, month |-> month]
OtherLink == [option |-> FALSE, year |-> 0, month |-> 0]

\* strptime(text, '%b %y'); the text is [form, mon, yy]
strptime_month(text) ==
    IF text.kind = "None" THEN [exc |-> "TypeError", v |-> None]
    ELSE IF text.v.form # "month"
    THEN [exc |-> "ValueError", v |-> None]
    ELSE [exc |-> NoExc,
          v |-> DateTime(IF text.v.yy < 69 THEN 2000 + text.v.yy
                         ELSE 1900 + text.v.yy,
                         text.v.mon, 1, 0)]

\* [dt.date(int(year), int(month), 1) for the option links]
LinkMonths(links) ==
    LET kept == SelectSeq(links, LAMBDA l : l.option)
    IN  [i \in 1..Len(kept) |-> Date(kept[i].year, kept[i].month, 1)]

MonthList(v) == [kind |-> "list", v |-> v]

SummaryRequest(S) ==
    [url |-> S.symbol, month |-> 0, year |-> 0,
     ticker |-> NoElement, time |-> NoPage.time]

Months(exc, msg, mths, requests) ==
    [exc |-> exc, msg |-> msg, months |-> mths, requests |-> requests]

\* Options._get_expiry_months; mths is self.months before the call
get_expiry_months(S, mths, sp) ==
    IF parse_url(S.symbol, sp).exc # NoExc
    THEN Months(parse_url(S.symbol, sp).exc, parse_url(S.symbol, sp).msg,
                mths, <<SummaryRequest(S)>>)
    ELSE IF ~sp.tab
    THEN Months("RemoteDataError",
                Msg("Expiry months not available", 0, 0, ""), mths,
                <<SummaryRequest(S)>>)
    ELSE IF sp.strong.el # "child"
    THEN Months("IndexError", NoMsg, mths, <<SummaryRequest(S)>>)
    ELSE IF strptime_month(sp.strong.text).exc # NoExc
    THEN Months(strptime_month(sp.strong.text).exc, NoMsg, mths,
                <<SummaryRequest(S)>>)
    ELSE Months(NoExc, NoMsg,
                MonthList(<<strptime_month(sp.strong.text).v>>
                            \o LinkMonths(sp.links)),
                <<SummaryRequest(S)>>)

\* mutant of CachedMonths: self.months is never found
CachedMonthsNever(mths) == FALSE

\* self.months succeeds
CachedMonths(mths) == mths.kind # "noattr"

\* try: months = self.months / except AttributeError: _get_expiry_months()
expiry_months(S, mths, sp) ==
    IF CachedMonths(mths) THEN Months(NoExc, NoMsg, mths, <<>>)
    ELSE get_expiry_months(S, mths, sp)

\* what one turn of a bulk loop got: the session after it, the frame, the
\* requests made and the outcome of the chain request behind it
Got(S, exc, frame, requests, stored, out) ==
    [S |-> S, exc |-> exc, frame |-> frame, requests |-> requests,
     stored |-> stored, out |-> out]

\* frame = getattr(self, nam)
FromAttr(S, name, nam, month, year) ==
    Got(S, NoExc, S.frames[nam], <<>>, {},
        Outcome(NoExc, NoMsg, S, S.frames[nam],
                [year |-> year, month |-> month, expiry |-> None], name,
                <<>>, {}, FALSE, 0))

\* frame = get_call_data(...) or get_put_data(...)
FromChain(out) ==
    Got(out.S, out.exc,
        IF out.exc = NoExc THEN sortlevel(out.ret) ELSE None,
        out.requests, out.stored, out)

\* the turns of a bulk loop so far
Acc(S, exc, data, requests, stored, out) ==
    [S |-> S, exc |-> exc, data |-> data, requests |-> requests,
     stored |-> stored, out |-> out]

NoOutcome(S) ==
    Outcome(NoExc, NoMsg, S, None,
            [year |-> 0, month |-> 0, expiry |-> None], "", <<>>, {},
            FALSE, 0)

\* all_data.append(frame), or the exception that ends the loop
Appended(acc, got) ==
    Acc(got.S, got.exc,
        IF got.exc = NoExc THEN Append(acc.data, got.frame) ELSE acc.data,
        acc.requests \o got.requests, acc.stored \cup got.stored, got.out)

\* for name in to_ret: for month in months, as one list of turns
Turns(to_ret, n) ==
    [i \in 1..(Len(to_ret) * n) |->
        [name |-> to_ret[((i - 1) \div n) + 1], k |-> ((i - 1) % n) + 1]]

\* the body of the loop of get_all_data (lines 1115-1127)
AllStep(acc, name, month, page) ==
    IF HasAttr(acc.S.frames, BulkName(name, month.v.month, month.v.year))
    THEN Appended(acc,
            FromAttr(acc.S, name,
                     BulkName(name, month.v.month, month.v.year),
                     month.v.month, month.v.year))
    ELSE Appended(acc,
            FromChain(get_option_data(acc.S, None, None, month, name, page)))

RECURSIVE AllLoop(_, _, _, _)
AllLoop(acc, turns, mths, site) ==
    IF turns = <<>> \/ acc.exc # NoExc THEN acc
    ELSE AllLoop(AllStep(acc, turns[1].name, mths[turns[1].k],
                         site[turns[1].k]),
                 Tail(turns), mths, site)

\* the page each expiry month's request meets during one bulk request
SitesFor(S, expiries, Pgs) ==
    {site \in [1..Len(expiries) -> Pgs \cup {NoPage}] :
        \A k \in 1..Len(expiries) :
            site[k] \in PagesFor(S, <<None, None, expiries[k]>>, Pgs)}

NoArgs == <<None, None, None>>

\* concat(all_data).sortlevel()
BulkReturn(acc) ==
    IF acc.exc = NoExc THEN sortlevel(concat(acc.data)) ELSE None

\* get_all_data with months known
AllWith(em, to_ret, Pgs) ==
    \E site \in SitesFor(Session, em.months.v, Pgs) :
    \E acc \in {AllLoop(Acc(Session, NoExc, <<>>, <<>>, {},
                            NoOutcome(Session)),
                        Turns(to_ret, Len(em.months.v)), em.months.v, site)} :
        CommitAll("get_all_data", NoArgs, acc.out, acc.exc, BulkReturn(acc),
                  em.requests \o acc.requests, acc.stored, to_ret, em.months)

GetAllData(Pgs, SPgs) ==
    \E sides \in NearSides :
    \E sp \in (IF CachedMonths(months) THEN {NoSummary} ELSE SPgs) :
    \E em \in {expiry_months(Session, months, sp)} :
        IF em.exc # NoExc
        THEN CommitAll("get_all_data", NoArgs,
                       Outcome(em.exc, em.msg, Session, None,
                               [year |-> 0, month |-> 0, expiry |-> None],
                               "", <<>>, {}, FALSE, 0),
                       em.exc, None, em.requests, {},
                       ToRet(sides[1], sides[2]), em.months)
        ELSE AllWith(em, ToRet(sides[1], sides[2]), Pgs)

\* get_near_stock_price as get_forward_data calls it: the second turn of
\* its loop
NearSecond(one, two) ==
    Got(two.out.S, two.exc,
        IF two.exc = NoExc THEN sortlevel(concat(<<one.df, two.df>>))
        ELSE None,
        one.out.requests \o two.out.requests,
        one.out.stored \cup two.out.stored, two.out)

\* ... and what follows its first turn
NearFirst(one, to_ret, above_below, a, page) ==
    IF one.exc # NoExc
    THEN Got(one.out.S, one.exc, None, one.out.requests, one.out.stored,
             one.out)
    ELSE IF Len(to_ret) = 1
    THEN Got(one.out.S, NoExc, sortlevel(one.df), one.out.requests,
             one.out.stored, one.out)
    ELSE NearSecond(one, NearStep(one.out.S, to_ret[2], above_below, a, page))

near_stock_price(S, to_ret, above_below, a, page) ==
    NearFirst(NearStep(S, to_ret[1], above_below, a, page), to_ret,
              above_below, a, page)

\* all_data.append(frame) after frame = self._process_data(frame, name[:-1])
ProcessedFrame(acc, got, p) ==
    Appended(acc, Got(got.S, p.exc, p.frame, got.requests, got.stored,
                      got.out))

\* frame = self._process_data(frame, name[:-1]) (line 1057)
Processed(acc, got, name) ==
    IF got.exc # NoExc THEN Appended(acc, got)
    ELSE ProcessedFrame(acc, got,
                        process_data(got.frame, Singular(name), got.S))

\* the body of the loop of get_forward_data (lines 1041-1059)
ForwardStep(acc, name, m2, y2, page, near, above_below, to_ret) ==
    IF near
    THEN Processed(acc,
            near_stock_price(acc.S, to_ret, above_below,
                             <<Num(m2), Num(y2), None>>, page),
            name)
    ELSE IF HasAttr(acc.S.frames, BulkName(name, m2, y2))
    THEN Processed(acc,
            FromAttr(acc.S, name, BulkName(name, m2, y2), m2, y2), name)
    ELSE Processed(acc,
            FromChain(get_option_data(acc.S, Num(m2), Num(y2), None, name,
                                      page)),
            name)

RECURSIVE ForwardLoop(_, _, _, _, _, _, _)
ForwardLoop(acc, turns, pairs, site, near, above_below, to_ret) ==
    IF turns = <<>> \/ acc.exc # NoExc THEN acc
    ELSE ForwardLoop(
            ForwardStep(acc, turns[1].name, pairs[turns[1].k][1],
                        pairs[turns[1].k][2], site[turns[1].k], near,
                        above_below, to_ret),
            Tail(turns), pairs, site, near, above_below, to_ret)

MaxForward == 2

\* the first of each month get_forward_data asks for
ForwardExpiries(pairs) ==
    [k \in 1..Len(pairs) |-> Date(pairs[k][2], pairs[k][1], 1)]

GetForwardData(Pgs) ==
    \E n \in 1..MaxForward, near \in BOOLEAN, sides \in NearSides :
    \E above_below \in {MaxNear} :
    \E pairs \in {ForwardPairs(CUR_YEAR, CUR_MONTH, n)} :
    \E site \in SitesFor(Session, ForwardExpiries(pairs), Pgs) :
    \E acc \in {ForwardLoop(Acc(Session, NoExc, <<>>, <<>>, {},
                                NoOutcome(Session)),
                            Turns(ToRet(sides[1], sides[2]), n), pairs, site,
                            near, above_below,
                            ToRet(sides[1], sides[2]))} :
        CommitAll("get_forward_data", NoArgs, acc.out, acc.exc,
                  BulkReturn(acc), acc.requests, acc.stored,
                  ToRet(sides[1], sides[2]), months)

\* the current month as the summary page names it
MonthText(form, mon, yy) == Str([form |-> form, mon |-> mon, yy |-> yy])

Strong(text) == [el |-> "child", text |-> text]

\* summary pages: failed requests, one without the month table, ones whose
\* current month cannot be read, and ones that list expiry months
SummaryPages ==
    {SummaryPage("neterr", FALSE, <<>>, NoElement),
     SummaryPage("noroot", FALSE, <<>>, NoElement),
     SummaryPage("ok", FALSE, <<>>, NoElement),
     SummaryPage("ok", TRUE, <<>>, NoElement),
     SummaryPage("ok", TRUE, <<>>, Strong(None)),
     SummaryPage("ok", TRUE, <<>>, Strong(MonthText("other", 0, 0))),
     SummaryPage("ok", TRUE, <<>>, Strong(MonthText("month", 5, 14))),
     SummaryPage("ok", TRUE, <<OtherLink, MonthLink(2014, 6)>>,
                 Strong(MonthText("month", 5, 14)))}

\* a failed request, a full page and a full page whose calls table has no
\* Symbol column
BulkPages ==
    PlainPages
    \cup {Page("ok", TableList(TABLE_LOC("puts") + 1, NoSymbolTable, PutsTable),
               GoodTicker, GoodTime)}

Init ==
    /\ \E d \in CurDates :
        CUR_MONTH = d.month /\ CUR_YEAR = d.year /\ CUR_DAY = d.day
    /\ symbol = upper(<<"b", "K">>)
    /\ tables = NoAttrs
    /\ frames = NoAttrs
    /\ underlying_price = NoAttr
    /\ quote_time = NoAttr
    /\ months = NoAttr
    /\ last = NoCall
    /\ fetched = {}
    /\ arg = Idle /\ res = Idle /\ pc = "session"

\* a session whose calls vary in the expiry asked for and in what the cache
\* meets
Next ==
    \/ GetCallData(CacheArgs, CachePages)
    \/ GetPutData(CacheArgs, CachePages)
    \/ GetOptionsData(CacheArgs, CachePages)
    \/ GetNearStockPrice(CacheArgs, CachePages)

Spec == Init /\ [][Next]_vars

\* a session whose calls vary in the month, year and expiry arguments
NextDates ==
    \/ GetCallData(AllArgs, PlainPages)
    \/ GetPutData(AllArgs, PlainPages)
    \/ GetOptionsData(AllArgs, PlainPages)
    \/ GetNearStockPrice(AllArgs, PlainPages)

SpecDates == Init /\ [][NextDates]_vars

\* a session whose calls vary in the page the network returns
NextPages ==
    \/ GetCallData(PlainArgs, Pages)
    \/ GetPutData(PlainArgs, Pages)
    \/ GetOptionsData(PlainArgs, Pages)
    \/ GetNearStockPrice(PlainArgs, Pages)

SpecPages == Init /\ [][NextPages]_vars

\* a session that mixes the chain and near-price requests with the bulk ones
NextBulk ==
    \/ GetCallData(PlainArgs, BulkPages)
    \/ GetPutData(PlainArgs, BulkPages)
    \/ GetOptionsData(PlainArgs, BulkPages)
    \/ GetNearStockPrice(PlainArgs, BulkPages)
    \/ GetAllData(BulkPages, SummaryPages)
    \/ GetForwardData(BulkPages)

SpecBulk == Init /\ [][NextBulk]_vars

-----------------------------------------------------------------------------
(* _dl_mult_symbols (lines 318-335) over _in_chunks (100-104).  arg is the   *)
(* call: the symbols, the chunk size, the retry count and the symbols whose  *)
(* every read meets a network error; res is the loop: the position after the *)
(* chunk taken, the chunk, the place in it, stocks, the symbols passed to    *)
(* method in order, the symbols warned about and the error raised.           *)

MaxSymbols == 3
MaxChunk == 3

MultSymbols == {"A", "B"}

\* seq[pos:pos + size]
in_chunk(seq, pos, size) == PySlice(seq, pos, pos + size)

\* method(sym, start, end, retry_count, pause): the loop of _retry_read_url
\* from turn i, with every read failing or the first one returning
RECURSIVE hist(_, _, _)
hist(i, retry_count, failing) ==
    IF RetryExhausted(i, retry_count) THEN "IOError"
    ELSE IF failing THEN hist(i + 1, retry_count, failing)
    ELSE "frame"

HistFrame(sym) == [kind |-> "frame", v |-> sym]

\* how Panel(stocks) may end, as far as lines 329-334 say: frames alone are
\* built into a panel; "just 1D nans" raise AttributeError; for frames mixed
\* with NaN the source decides neither, so both are possible
PanelOutcomes(stocks) ==
    IF \A sym \in DOMAIN stocks : stocks[sym] = NaN
    THEN {"AttributeError"}
    ELSE IF \A sym \in DOMAIN stocks : stocks[sym] # NaN
    THEN {NoExc}
    ELSE {NoExc, "AttributeError"}

InitMult ==
    /\ \E d \in CurDates :
        CUR_MONTH = d.month /\ CUR_YEAR = d.year /\ CUR_DAY = d.day
    /\ symbol = <<"B", "K">>
    /\ tables = NoAttrs /\ frames = NoAttrs
    /\ underlying_price = NoAttr /\ quote_time = NoAttr
    /\ months = NoAttr
    /\ last = NoCall /\ fetched = {}
    /\ arg \in [symbols : UNION {[1..n -> MultSymbols] : n \in 1..MaxSymbols},
                chunksize : 1..MaxChunk, retry_count : {0, 2},
                down : SUBSET MultSymbols]
    /\ res = [pos |-> 0, group |-> <<>>, k |-> 0, stocks |-> NoAttrs,
              calls |-> <<>>, warned |-> <<>>, exc |-> NoExc, items |-> {}]
    /\ pc = "chunks"

\* for sym_group in _in_chunks(symbols, chunksize)
MultNextGroup ==
    /\ pc = "chunks" /\ res.pos < Len(arg.symbols)
    /\ res' = [res EXCEPT !.group = in_chunk(arg.symbols, res.pos,
                                             arg.chunksize),
                          !.pos = @ + arg.chunksize, !.k = 0]
    /\ pc' = "group"
    /\ RetryUnchanged

\* stocks[sym] = method(sym, start, end, retry_count, pause)
MultFetch ==
    /\ pc = "group" /\ res.k < Len(res.group)
    /\ hist(0, arg.retry_count, res.group[res.k + 1] \in arg.down) = "frame"
    /\ res' = [res EXCEPT !.k = @ + 1,
                          !.calls = Append(@, res.group[res.k + 1]),
                          !.stocks = SetAttr(@, res.group[res.k + 1],
                                             HistFrame(res.group[res.k + 1]))]
    /\ UNCHANGED pc
    /\ RetryUnchanged

\* except IOError: warnings.warn(..., SymbolWarning); stocks[sym] = np.nan
MultFetchFails ==
    /\ pc = "group" /\ res.k < Len(res.group)
    /\ hist(0, arg.retry_count, res.group[res.k + 1] \in arg.down) = "IOError"
    /\ res' = [res EXCEPT !.k = @ + 1,
                          !.calls = Append(@, res.group[res.k + 1]),
                          !.warned = Append(@, res.group[res.k + 1]),
                          !.stocks = SetAttr(@, res.group[res.k + 1], NaN)]
    /\ UNCHANGED pc
    /\ RetryUnchanged

\* the chunk has no further symbol
MultGroupDone ==
    /\ pc = "group" /\ res.k >= Len(res.group)
    /\ pc' = "chunks"
    /\ UNCHANGED res
    /\ RetryUnchanged

\* return Panel(stocks).swapaxes('items', 'minor')
MultReturn ==
    /\ pc = "chunks" /\ res.pos >= Len(arg.symbols)
    /\ NoExc \in PanelOutcomes(res.stocks)
    /\ res' = [res EXCEPT !.items = DOMAIN res.stocks]
    /\ pc' = "returned"
    /\ RetryUnchanged

\* except AttributeError: raise RemoteDataError("No data fetched using ...")
MultRaise ==
    /\ pc = "chunks" /\ res.pos >= Len(arg.symbols)
    /\ "AttributeError" \in PanelOutcomes(res.stocks)
    /\ res' = [res EXCEPT !.exc = "RemoteDataError"]
    /\ pc' = "raised"
    /\ RetryUnchanged

NextMult ==
    \/ MultNextGroup
    \/ MultFetch
    \/ MultFetchFails
    \/ MultGroupDone
    \/ MultReturn
    \/ MultRaise

SpecMult == InitMult /\ [][NextMult]_vars

-----------------------------------------------------------------------------
(* get_components_yahoo (lines 275-315).  A page is the list of its lines,   *)
(* each split into ticker, name and exchange.  res is the loop: comp_idx,    *)
(* idx_df (its rows, the ticker being the index), mask, the offsets          *)
(* requested, the tickers the pages listed and, for each page, whether it    *)
(* brought a ticker that idx_df did not hold.                                *)

MaxRows == 2

ComponentRows ==
    [ticker : {"A", "B"}, name : {"x", "y"}, exchange : {"N"}]

\* the bodies the provider may return: at least one line of three fields
ComponentPages == UNION {[1..n -> ComponentRows] : n \in 1..MaxRows}

\* temp_df.drop_duplicates(): a row equal to an earlier row is dropped
drop_duplicates(rows) ==
    LET keep(i) == \A j \in 1..(i - 1) : rows[j] # rows[i]
        F[i \in 0..Len(rows)] ==
            IF i = 0 THEN <<>>
            ELSE IF keep(i) THEN Append(F[i - 1], rows[i]) ELSE F[i - 1]
    IN  F[Len(rows)]

\* df.index after set_index('ticker')
TickerIndex(rows) == [i \in 1..Len(rows) |-> rows[i].ticker]

\* ~temp_df.index.isin(idx_df.index)
NotIn(temp_df, idx_df) ==
    [i \in 1..Len(temp_df) |->
        temp_df[i].ticker \notin Range(TickerIndex(idx_df))]

\* temp_df[mask]
Masked(temp_df, mask) ==
    LET F[i \in 0..Len(temp_df)] ==
            IF i = 0 THEN <<>>
            ELSE IF mask[i] THEN Append(F[i - 1], temp_df[i]) ELSE F[i - 1]
    IN  F[Len(temp_df)]

\* True in mask
MaskHasTrue(mask) == TRUE \in Range(mask)

InitComponents ==
    /\ \E d \in CurDates :
        CUR_MONTH = d.month /\ CUR_YEAR = d.year /\ CUR_DAY = d.day
    /\ symbol = <<"B", "K">>
    /\ tables = NoAttrs /\ frames = NoAttrs
    /\ underlying_price = NoAttr /\ quote_time = NoAttr
    /\ months = NoAttr
    /\ last = NoCall /\ fetched = {}
    /\ arg = [idx_sym |-> "^DJI"]
    /\ res = [comp_idx |-> 1, idx_df |-> <<>>, mask |-> <<TRUE>>,
              offsets |-> <<>>, listed |-> {}, news |-> <<>>]
    /\ pc = "while"

\* one turn of the loop (lines 302-313)
ComponentsPage ==
    /\ pc = "while" /\ MaskHasTrue(res.mask)
    /\ \E page \in ComponentPages :
       \E temp_df \in {drop_duplicates(page)} :
       \E mask \in {NotIn(temp_df, res.idx_df)} :
          res' = [comp_idx |-> res.comp_idx + 50,
                  idx_df |-> res.idx_df \o Masked(temp_df, mask),
                  mask |-> mask,
                  offsets |-> Append(res.offsets, res.comp_idx),
                  listed |-> res.listed \cup Range(TickerIndex(page)),
                  news |-> Append(res.news,
                                  ~(Range(TickerIndex(page))
                                      \subseteq Range(TickerIndex(res.idx_df))))]
    /\ UNCHANGED pc
    /\ RetryUnchanged

\* return idx_df
ComponentsReturn ==
    /\ pc = "while" /\ ~MaskHasTrue(res.mask)
    /\ pc' = "returned"
    /\ UNCHANGED res
    /\ RetryUnchanged

NextComponents ==
    \/ ComponentsPage
    \/ ComponentsReturn

SpecComponents == InitComponents /\ [][NextComponents]_vars

-----------------------------------------------------------------------------
(* Claims about _process_data (SpecProcess) *)

StripLast(s, k) == IF Len(s) > k THEN SubSeq(s, 1, Len(s) - k) ELSE <<>>

\* Symbol with its last 9 and then its last 6 characters stripped
DecodedRoot(sym) == StripLast(StripLast(sym, 9), 6)

WithoutHyphens(s) == SelectSeq(s, LAMBDA c : c # "-")

ProcessDone == pc = "done" /\ res.exc = NoExc

\* C6 as stated: IsNonstandard is true iff the decoded root, with any hyphen
\* removed from the root, differs from the session's uppercased symbol.
C6_Original ==
    ProcessDone =>
        \A i \in 1..Len(res.frame.rows) :
            res.frame.rows[i].IsNonstandard.v
                = (WithoutHyphens(DecodedRoot(arg.frame.rows[i].Symbol.v))
                     # symbol)

\* C6 as amended: IsNonstandard is true iff the decoded root, as it stands,
\* differs from the session's uppercased symbol with its hyphens removed; a
\* root equal to the hyphen-free symbol yields false.
C6_Amended ==
    ProcessDone =>
        \A i \in 1..Len(res.frame.rows) :
            res.frame.rows[i].IsNonstandard.v
                = (DecodedRoot(arg.frame.rows[i].Symbol.v)
                     # WithoutHyphens(symbol))

\* a hyphenated session symbol whose row carries the hyphen-free root
C6_Witness ==
    /\ ProcessDone
    /\ "-" \in Range(symbol)
    /\ Len(arg.root) > 0
    /\ arg.suffix = SymbolSuffix
    /\ arg.root = WithoutHyphens(symbol)
    /\ res.frame.rows[1].IsNonstandard.v = FALSE

-----------------------------------------------------------------------------
(* Claims about chop_data (SpecChop) *)

Strikes(df) == [i \in 1..Len(df.rows) |-> df.rows[i].Strike.v]

\* the price the filter compares the strikes with
EffPrice == ChopPrice(arg.underlying_price, underlying_price)

SomeStrikeAbove ==
    \E i \in 1..Len(arg.df.rows) : arg.df.rows[i].Strike.v > EffPrice.v

\* 0-based position of the first row whose strike exceeds the price
FirstAbove ==
    CHOOSE i \in 0..(Len(arg.df.rows) - 1) :
        /\ arg.df.rows[i + 1].Strike.v > EffPrice.v
        /\ \A j \in 0..(i - 1) : arg.df.rows[j + 1].Strike.v <= EffPrice.v

\* rows at positions i-N .. i+N that exist, without the all-empty rows
TruncatedWindow ==
    dropna(SubSeq(arg.df.rows,
                  Max(FirstAbove - arg.above_below, 0) + 1,
                  Min(FirstAbove + arg.above_below, Len(arg.df.rows) - 1) + 1),
           arg.df.columns)

C7Case ==
    /\ pc = "done"
    /\ arg.df = ChopFrame(LongStrikes, {})
    /\ arg.above_below = 2
    /\ arg.underlying_price = Num(42)

\* C7 as stated: strikes [10..70], price 42, above_below 2 gives the strikes
\* [20,30,40,50,60].
C7_Original ==
    C7Case => res.exc = NoExc /\ Strikes(res.df) = <<20, 30, 40, 50, 60>>

\* C7 as amended: strikes [10..70], price 42, above_below 2 gives the rows at
\* positions 2..6, the strikes [30,40,50,60,70].
C7_Amended ==
    C7Case => res.exc = NoExc /\ Strikes(res.df) = <<30, 40, 50, 60, 70>>

C7_Witness == C7Case /\ Strikes(res.df) = <<30, 40, 50, 60, 70>>

\* C8: for ascending strikes, N >= 0 and a non-NaN price that some strike
\* exceeds, chop_data returns exactly the existing rows at positions i-N..i+N
\* (truncated at both ends), i the position of the first strike above the price.
C8_Claim ==
    (pc = "done" /\ EffPrice.kind = "num" /\ SomeStrikeAbove) =>
        res.exc = NoExc /\ res.df.rows = TruncatedWindow

\* C9: for every table, N and non-NaN price, chop_data returns a table of at
\* most 2N+1 rows and raises no error.
C9_Claim ==
    (pc = "done" /\ EffPrice.kind = "num") =>
        res.exc = NoExc /\ Len(res.df.rows) <= 2 * arg.above_below + 1

-----------------------------------------------------------------------------
(* Claims about the session (Spec, SpecDates, SpecPages) *)

SideOps == {"get_call_data", "get_put_data"}

\* the (month, year) pair the last call resolved to
LastPair == <<last.month, last.year>>

\* whether the last call passed _try_parse_dates
Validated == last.op # "none" /\ last.year # 0

\* C1: once _get_option_tables has returned the tables of a (month, year)
\* pair, no later call for that pair requests a page, whichever accessor and
\* side it is; the call that stores the tables of a pair requests one page.
C1_NoRefetch ==
    [][/\ <<last'.month, last'.year>> \in fetched => last'.requests = <<>>
       /\ <<last'.month, last'.year>> \in fetched' \ fetched
            => /\ Len(last'.requests) = 1
               /\ last'.requests[1].month = last'.month
               /\ last'.requests[1].year = last'.year]_vars

\* a put request served from tables that an earlier request stored
C1_Witness ==
    /\ last.op = "get_put_data" /\ last.exc = NoExc
    /\ LastPair \in fetched /\ last.requests = <<>>
    /\ HasAttr(frames, FrameName("calls", last.month, last.year))

\* C2: with expiry absent, a call that gives exactly one of month and year
\* raises ValueError, requests no page and leaves the stored tables, the
\* stored frames and the snapshot as they were; a call that gives neither is
\* made for CUR_MONTH and CUR_YEAR with expiry the first day of that month.
C2_Validation ==
    [][/\ (~last'.given.expiry /\ last'.given.month # last'.given.year)
            => /\ last'.exc = "ValueError"
               /\ last'.requests = <<>>
               /\ UNCHANGED <<tables, frames, underlying_price, quote_time>>
       /\ (~last'.given.expiry /\ ~last'.given.month /\ ~last'.given.year)
            => /\ last'.exc # "ValueError"
               /\ last'.month = CUR_MONTH /\ last'.year = CUR_YEAR
               /\ last'.expiry = Date(CUR_YEAR, CUR_MONTH, 1)
               /\ \A i \in 1..Len(last'.requests) :
                     /\ last'.requests[i].month = CUR_MONTH
                     /\ last'.requests[i].year = CUR_YEAR]_vars

\* a year given alone is refused in a session that holds tables and frames
C2_Witness ==
    /\ last.op = "get_call_data" /\ last.exc = "ValueError"
    /\ ~last.given.expiry /\ ~last.given.month /\ last.given.year
    /\ last.requests = <<>>
    /\ tables # NoAttrs /\ frames # NoAttrs

\* C3: a call that gives expiry raises no ValueError and resolves to
\* expiry.year and expiry.month, whichever of month and year it also gives.
C3_Claim ==
    (last.op # "none" /\ last.given.expiry)
        => /\ last.exc # "ValueError"
           /\ last.expiry.kind = "date"
           /\ last.year = last.expiry.v.year
           /\ last.month = last.expiry.v.month

\* C4: a request that examined a page or stored tables of n tables in which
\* the position of its side does not exist (n <= position) fails with the
\* RemoteDataError that names the position and n.
C4_Claim ==
    (last.op \in SideOps /\ last.examined
            /\ last.found <= TABLE_LOC(last.name))
        => /\ last.exc = "RemoteDataError"
           /\ last.msg.text = "Table location invalid"
           /\ last.msg.required = TABLE_LOC(last.name)
           /\ last.msg.found = last.found

\* the frame the session holds under a name agrees with the returned table
Holds(attrs, name, ret) ==
    HasAttr(attrs, name) /\ sortlevel(attrs[name]) = ret

\* C5 as stated: after a successful request for a side the session holds the
\* returned table under the side-and-expiry name and under the side-only
\* name, whatever the expiry.
C5_Original ==
    (last.op \in SideOps /\ last.exc = NoExc)
        => /\ Holds(frames, FrameName(last.name, last.month, last.year),
                    last.ret)
           /\ Holds(frames, <<last.name>>, last.ret)

\* C5: after a successful request for a side the session holds the returned
\* table under the side-and-expiry name; it holds it under the side-only
\* name when the expiry is in CUR_MONTH of CUR_YEAR, and otherwise the
\* side-only attribute is left as it was.
C5_Amended ==
    [][(last'.op \in SideOps /\ last'.exc = NoExc)
        => /\ Holds(frames', FrameName(last'.name, last'.month, last'.year),
                    last'.ret)
           /\ IF last'.month = CUR_MONTH /\ last'.year = CUR_YEAR
              THEN Holds(frames', <<last'.name>>, last'.ret)
              ELSE /\ HasAttr(frames', <<last'.name>>)
                        = HasAttr(frames, <<last'.name>>)
                   /\ HasAttr(frames, <<last'.name>>)
                        => frames'[<<last'.name>>] = frames[<<last'.name>>]]_vars

\* a request for a later expiry returned a table that differs from the one
\* the session keeps under the side-only name
C5_Witness ==
    /\ last.op = "get_call_data" /\ last.exc = NoExc
    /\ ~(last.month = CUR_MONTH /\ last.year = CUR_YEAR)
    /\ Holds(frames, FrameName("calls", last.month, last.year), last.ret)
    /\ HasAttr(frames, <<"calls">>)
    /\ sortlevel(frames[<<"calls">>]) # last.ret

\* C10: a get_call_data or get_put_data that passed argument validation and
\* failed raised RemoteDataError.
C10_Claim ==
    (last.op \in SideOps /\ Validated /\ last.exc # NoExc)
        => last.exc = "RemoteDataError"

\* the quote elements of a page lack the ticker element, the time element
\* or the child the time is read from
QuoteAbsent(r) ==
    \/ r.ticker.el # "child"
    \/ r.time.el # "child"
    \/ (r.time.text.kind = "None" /\ r.time.nested.el # "child")

\* price and quote time are both unset, both NaN or both values
SnapshotPaired(price, time) ==
    \/ price.kind = "noattr" /\ time.kind = "noattr"
    \/ price.kind = "nan" /\ time.kind = "nan"
    \/ price.kind = "num" /\ time.kind = "datetime"

\* C11: a request that fetched a page with at least one table whose ticker
\* element, time element or time child is absent sets the snapshot to
\* (NaN, NaN), stores the page's tables and goes on to the table: it succeeds
\* when the page has the table positions of both sides; and price and quote
\* time are never one set and the other not.
C11_Degrades ==
    [][/\ SnapshotPaired(underlying_price', quote_time')
       /\ (/\ last'.requests # <<>>
           /\ last'.examined /\ last'.found > 0
           /\ QuoteAbsent(last'.requests[1]))
            => /\ underlying_price' = NaN /\ quote_time' = NaN
               /\ HasAttr(tables', TableName(last'.month, last'.year))
               /\ PyLen(tables'[TableName(last'.month, last'.year)])
                    = last'.found
               /\ last'.found > TABLE_LOC("puts") => last'.exc = NoExc]_vars

\* a page without the ticker element replaced a numeric snapshot by NaN and
\* the call returned its table
C11_Witness ==
    /\ last.op = "get_call_data" /\ last.exc = NoExc
    /\ last.requests # <<>> /\ last.requests[1].ticker.el = "absent"
    /\ underlying_price = NaN /\ quote_time = NaN
    /\ Cardinality(DOMAIN tables) = 2
    /\ last.ret.rows[1].Underlying_Price = NaN

-----------------------------------------------------------------------------
(* Claims about the month sequence of get_forward_data (SpecMonths) *)

\* the calendar month after (month, year)
NextCalendarMonth(pair) ==
    IF pair[1] = 12 THEN <<1, pair[2] + 1>> ELSE <<pair[1] + 1, pair[2]>>

\* C15: the pairs get_forward_data requests start at (CUR_MONTH, CUR_YEAR),
\* every month is in 1..12 and each pair is the calendar successor of the
\* one before it.
C15_Claim ==
    pc = "done" /\ "pairs" \in DOMAIN res
        => /\ res.pairs[1] = <<CUR_MONTH, CUR_YEAR>>
           /\ \A i \in 1..Len(res.pairs) : res.pairs[i][1] \in 1..12
           /\ \A i \in 1..(Len(res.pairs) - 1) :
                 res.pairs[i + 1] = NextCalendarMonth(res.pairs[i])

-----------------------------------------------------------------------------
(* Claims about _retry_read_url (SpecRetry) *)

Attempts == Len(res.log)

AllNetworkErrors == \A k \in 1..Attempts : res.log[k] = "neterr"

\* C16: at most retry_count attempts are made, each after one pause; the
\* call returns the parsed body of the first attempt that raised no network
\* error, which is the last attempt made; it raises the IOError naming the
\* source and the URL exactly when retry_count attempts were made and all
\* raised a network error.
C16_Retry ==
    /\ Attempts <= arg.retry_count
    /\ res.sleeps = (IF pc = "read" THEN Attempts + 1 ELSE Attempts)
    /\ res.slept = res.sleeps * arg.pause
    /\ \A k \in 1..(Attempts - 1) : res.log[k] = "neterr"
    /\ pc = "returned"
        => /\ Attempts >= 1 /\ res.log[Attempts] = "ok"
           /\ res.rs = ParseCsv(res.lines)
           /\ res.msg = NoIOError
    /\ pc = "raised"
        => /\ res.msg = [tries |-> arg.retry_count, name |-> arg.name,
                         url |-> arg.url]
    /\ pc \in {"returned", "raised"}
        => (pc = "raised"
                <=> (Attempts = arg.retry_count /\ AllNetworkErrors))

\* the third attempt succeeded and its body lost the doubled last row
C16_Witness ==
    /\ pc = "returned" /\ arg.retry_count = 3 /\ Attempts = 3
    /\ res.lines = <<3, 3, 2>> /\ res.rs = <<2, 3>>
    /\ res.slept = 6

-----------------------------------------------------------------------------
(* Claims about DataReader (SpecReader) *)

\* the fetch function the documentation gives for a data source
DocumentedFetch(data_source) ==
    CASE data_source = "yahoo" -> "get_data_yahoo"
      [] data_source = "google" -> "get_data_google"
      [] data_source = "fred" -> "get_data_fred"
      [] data_source = "ff" -> "get_data_famafrench"
      [] OTHER -> ""

\* C18: for each of the documented sources "yahoo", "google", "fred" and
\* "ff", DataReader returns the result of the fetch function of that source
\* for the name it was given.
C18_Claim ==
    (pc = "done" /\ DocumentedFetch(arg.data_source) # "")
        => /\ res.kind = "fetch"
           /\ res.fn = DocumentedFetch(arg.data_source)
           /\ res.name = arg.name

-----------------------------------------------------------------------------
(* Claims about the cache key, the snapshot and the stored tables *)

ChainOps ==
    {"get_call_data", "get_put_data", "get_options_data",
     "get_near_stock_price"}

\* C13: a request is served from stored tables only if an earlier request of
\* the session fetched the page of the same (month, year) pair.
C13_Claim ==
    (Validated /\ last.examined /\ last.requests = <<>>)
        => LastPair \in fetched

\* every row of a frame carries this price and quote time
Stamped(frame, price, time) ==
    \A i \in 1..Len(frame.rows) :
        /\ frame.rows[i].Underlying_Price = price
        /\ frame.rows[i].Quote_Time = time

\* C19: whenever tables are stored a snapshot is defined; every row of the
\* table a chain request returns carries the session's snapshot as it is
\* after the request; a request served from stored tables leaves the
\* snapshot as the last fetched page set it.
C19_Snapshot ==
    [][/\ tables' # NoAttrs
            => underlying_price'.kind # "noattr" /\ quote_time'.kind # "noattr"
       /\ (last'.op \in ChainOps /\ last'.exc = NoExc)
            => /\ last'.ret.rows # <<>>
               /\ Stamped(last'.ret, underlying_price', quote_time')
               /\ last'.requests = <<>>
                    => /\ underlying_price' = underlying_price
                       /\ quote_time' = quote_time]_vars

\* calls served from the stored tables of the current month carry the NaN
\* snapshot of a later page, while the puts of the same month carry the
\* price of their own page
C19_Witness ==
    /\ last.op = "get_call_data" /\ last.exc = NoExc
    /\ last.requests = <<>>
    /\ LastPair = <<CUR_MONTH, CUR_YEAR>>
    /\ underlying_price = NaN
    /\ Stamped(last.ret, NaN, NaN)
    /\ HasAttr(frames, <<"puts">>)
    /\ frames[<<"puts">>].rows[1].Underlying_Price.kind = "num"

\* the name under which the tables of the pair of the step's call are stored
StepKey == TableName(last'.month, last'.year)

\* C20: a request that fetched a page with at least one table but without
\* the position of its side stores the page's tables and fails with
\* RemoteDataError; a request that finds such tables stored fails with
\* RemoteDataError without requesting a page; a fetch that fails in the
\* network layer or finds no table changes no stored tables, and a request
\* whose tables are not stored requests a page.
C20_Stored ==
    [][(last'.op # "none" /\ last'.year # 0)
        => /\ (/\ last'.requests # <<>> /\ last'.examined
               /\ last'.found \in 1..TABLE_LOC(last'.name))
                => /\ HasAttr(tables', StepKey)
                   /\ PyLen(tables'[StepKey]) = last'.found
                   /\ last'.exc = "RemoteDataError"
           /\ (/\ last'.op \in SideOps /\ HasAttr(tables, StepKey)
               /\ PyLen(tables[StepKey]) <= TABLE_LOC(last'.name))
                => /\ last'.requests = <<>>
                   /\ last'.exc = "RemoteDataError"
                   /\ tables' = tables
           /\ (last'.requests # <<>> /\ (~last'.examined \/ last'.found = 0))
                => /\ tables' = tables
                   /\ ~HasAttr(tables', StepKey)
                   /\ last'.exc = "RemoteDataError"
           /\ ~HasAttr(tables, StepKey) => last'.requests # <<>>]_vars

\* a second request for calls failed on the stored nine tables without a
\* page request
C20_Witness ==
    /\ last.op = "get_call_data" /\ last.exc = "RemoteDataError"
    /\ last.requests = <<>> /\ last.examined
    /\ last.found = TABLE_LOC("calls")
    /\ HasAttr(tables, TableName(last.month, last.year))

-----------------------------------------------------------------------------
(* Claims about the bulk requests (SpecBulk) *)

\* C14: a get_forward_data call for months >= 1 whose pages parse (no
\* RemoteDataError from the chain requests behind it) returns the
\* concatenated tables without raising, whether the month's table was
\* fetched by the call or was already a stored callsMMYY/putsMMYY attribute.
C14_Claim ==
    (last.op = "get_forward_data" /\ last.exc # "RemoteDataError")
        => last.exc = NoExc /\ last.ret # None

\* self.months is set
MonthsKnown == months # NoAttr

\* the month list mths is set and every frame get_all_data reads for these
\* sides is among the attributes frs
StoredIn(mths, frs, to_ret) ==
    /\ mths # NoAttr
    /\ \A i \in 1..Len(to_ret), k \in 1..Len(mths.v) :
          HasAttr(frs, BulkName(to_ret[i], mths.v[k].v.month,
                                mths.v[k].v.year))

AllStored(to_ret) == StoredIn(months, frames, to_ret)

\* the requests of a call for the page of one month
PageRequests(requests, month, year) ==
    {i \in 1..Len(requests) :
        requests[i].month = month /\ requests[i].year = year}

\* C17: a successful get_all_data leaves the month list and every frame of
\* its sides stored, and nothing a later request does removes them; a
\* get_all_data call that finds them stored makes no request; a call that
\* finds the month list stored does not request the summary page and leaves
\* the list as it is; and a call requests no page twice: in a successful
\* call each month whose tables were not stored is requested exactly once,
\* however many sides were asked for.
C17_NoRefetch ==
    [][/\ \A sides \in NearSides :
            AllStored(ToRet(sides[1], sides[2]))
                => AllStored(ToRet(sides[1], sides[2]))'
       /\ last'.op = "get_all_data"
            => /\ last'.exc = NoExc => StoredIn(months', frames', last'.sides)
               /\ AllStored(last'.sides) => last'.requests = <<>>
               /\ MonthsKnown
                    => /\ months' = months
                       /\ PageRequests(last'.requests, 0, 0) = {}
               /\ \A i, j \in 1..Len(last'.requests) :
                    i # j => last'.requests[i].url # last'.requests[j].url
               /\ last'.exc = NoExc
                    => \A k \in 1..Len(months'.v) :
                         ~HasAttr(tables, TableName(months'.v[k].v.month,
                                                    months'.v[k].v.year))
                            => Cardinality(
                                 PageRequests(last'.requests,
                                              months'.v[k].v.month,
                                              months'.v[k].v.year)) = 1]_vars

\* a get_all_data call for both sides over two expiry months succeeded
\* without a request
C17_Witness ==
    /\ last.op = "get_all_data" /\ last.exc = NoExc
    /\ last.sides = <<"calls", "puts">>
    /\ last.requests = <<>>
    /\ MonthsKnown /\ Len(months.v) = 2
    /\ Len(last.ret.rows) = 8

\* C12: no step of a session removes a stored _tablesMMYY entry or changes
\* the table collection it holds.
C12_Kept ==
    [][\A k \in DOMAIN tables :
          k \in DOMAIN tables' /\ tables'[k] = tables[k]]_vars

\* two months' tables are stored, they differ, and the last request was a
\* bulk request that fetched a page
C12_Witness ==
    /\ \E k1, k2 \in DOMAIN tables : tables[k1] # tables[k2]
    /\ last.op \in {"get_all_data", "get_forward_data"}
    /\ \E i \in 1..Len(last.requests) : last.requests[i].month # 0

-----------------------------------------------------------------------------
(* Claims about _dl_mult_symbols (SpecMult) *)

\* method raises IOError for this symbol: its retries are exhausted
MultFails(sym) == hist(0, arg.retry_count, sym \in arg.down) = "IOError"

\* the symbols of the input that fail, in input order
FailedSymbols == SelectSeq(arg.symbols, MultFails)

\* the fetches of a finished download: method was called once for each
\* symbol of the input, in input order; the symbols that failed, and only
\* they, were warned about and hold NaN
MultFetchedInOrder ==
    /\ res.calls = arg.symbols
    /\ res.warned = FailedSymbols
    /\ DOMAIN res.stocks = Range(arg.symbols)
    /\ \A sym \in DOMAIN res.stocks :
          res.stocks[sym] = IF MultFails(sym) THEN NaN ELSE HistFrame(sym)

\* C21: when a multi-symbol download ends, every symbol of the input was
\* fetched exactly once in input order whatever the chunk size, a symbol
\* whose retries were exhausted holds NaN and was warned about while the
\* others hold their data, and RemoteDataError was raised only if no symbol
\* yielded data.
C21_Claim ==
    pc \in {"returned", "raised"}
        => /\ MultFetchedInOrder
           /\ pc = "raised" => \A sym \in DOMAIN res.stocks : MultFails(sym)

-----------------------------------------------------------------------------
(* Claims about get_components_yahoo (SpecComponents) *)

\* the offsets 1, 51, 101, ... of n requests
Offsets(n) == [i \in 1..n |-> 1 + 50 * (i - 1)]

\* the rows of the result whose index is this ticker
RowsOf(ticker) ==
    {i \in 1..Len(res.idx_df) : res.idx_df[i].ticker = ticker}

\* the pagination of a finished call: the offsets requested, and the loop
\* stopped right after the first page without a new ticker
Paginated ==
    /\ res.offsets = Offsets(Len(res.offsets))
    /\ res.news # <<>>
    /\ ~res.news[Len(res.news)]
    /\ \A i \in 1..(Len(res.news) - 1) : res.news[i]

\* C22: when get_components_yahoo returns, it requested the offsets 1, 51,
\* 101, ... in order, stopped right after the first page that brought no
\* ticker it had not collected, and its result holds every ticker the pages
\* listed exactly once, also when a page lists a ticker in two rows that
\* differ in name or exchange.
C22_Claim ==
    pc = "returned"
        => /\ Paginated
           /\ \A ticker \in res.listed : Cardinality(RowsOf(ticker)) = 1


=============================================================================
